---- MODULE Spec2Model ----
(***************************************************************************)
(* Monge-Ampere mesh movers of movement/monge_ampere.py.                   *)
(*                                                                         *)
(* Fields live on a two-node discretisation (Nodes), node 1 being a        *)
(* boundary node and node 2 an interior one.  The weak forms of the source *)
(* are evaluated with a lumped (nodal) quadrature, so theta and the        *)
(* relative L2 residual are computed exactly, in rational arithmetic, by   *)
(* the formulas of the source.  The linear and nonlinear solves of the     *)
(* finite element library are external: a solve returns some field of the  *)
(* right space.  Rationals are pairs <<numerator, denominator>>.           *)
(***************************************************************************)
EXTENDS Integers, Sequences, FiniteSets, TLC

VARIABLES
    mesh,               \* topology of the mesh: dimension and tagged boundary
    coordinates,        \* mesh.coordinates
    pc,                 \* position of the caller / of move()
    kwargs,             \* the arguments of the constructor call
    method,             \* "relaxation" or "quasi_newton"
    monitor_function,   \* self.monitor_function
    maxiter, rtol, dtol, fix_boundary_nodes,
    xi,                 \* self.xi, the reference coordinates
    phi, sigma, phi_old, sigma_old,
    grad_phi,           \* self._grad_phi (and its copy self.grad_phi)
    monitor,            \* self.monitor
    theta,              \* self.theta
    l2_projector,       \* self._l2_projector
    pseudotimestepper,  \* self._pseudotimestepper
    equidistributor,    \* self._equidistributor
    i,                  \* loop index of move()
    initial_norm,       \* local of move()
    residual,           \* local of move(): square of the relative residual
    snes,               \* the nonlinear solver of the quasi-Newton variant
    result,             \* what the last call gave back to the caller
    calls,              \* move() calls started so far
    updates,            \* potential/Hessian updates done by the current call
    samples,            \* monitor_function calls of the current iteration
    invoked,            \* the monitor functions called by the current move()
    f,                  \* self.f of a spring mover, the forcing
    displacement,       \* self.displacement of a spring mover
    K,                  \* the stiffness matrix assembled by the current move()
    todo,               \* boundary conditions a spring move() has yet to apply
    constructed         \* solver objects constructed so far, for each handle

vars == <<mesh, coordinates, pc, kwargs, method, monitor_function, maxiter, rtol,
          dtol, fix_boundary_nodes, xi, phi, sigma, phi_old, sigma_old,
          grad_phi, monitor, theta, l2_projector, pseudotimestepper,
          equidistributor, i, initial_norm, residual, snes, result, calls,
          updates, samples, invoked, f, displacement, K, todo, constructed>>

(***************************************************************************)
(* Bounds                                                                  *)
(***************************************************************************)
MaxIter == 3      \* largest maxiter handed to a mover
MaxCalls == 2     \* move() calls made on one mover
MaxTags == 2      \* boundary tags of a generated mesh
MaxTrials == 2    \* residual evaluations of one line search
MaxLength == 6    \* longest interior edge of a spring mesh

(***************************************************************************)
(* Value spaces                                                            *)
(***************************************************************************)
Nodes == {1, 2}
BoundaryNodes == {1}
Zero == <<0, 0>>
None == "None"          \* an absent function or method
NoField == << >>        \* an absent field argument

PhiFields == {<<0, 0>>, <<0, 1>>, <<1, 0>>}
SigmaFields == {<<0, 0>>, <<0, 1>>, <<1, 1>>}

RTolValues == {<<1, 100>>, <<1, 2>>}
DTolValues == {<<1, 2>>, <<1, 1>>, <<2, 1>>}
Methods == {"relaxation", "quasi_newton"}
MonitorFunctions == {"const_monitor", "ring_monitor"}

Abs(x) == IF x < 0 THEN -x ELSE x

\* comparison of non-negative rationals
Less(a, b) == a[1] * b[2] < b[1] * a[2]
\* square of a rational, product of two rationals
Sq(a) == <<a[1] * a[1], a[2] * a[2]>>
Times(a, b) == <<a[1] * b[1], a[2] * b[2]>>

(***************************************************************************)
(* Meshes: a dimension and, per boundary tag, which Cartesian components   *)
(* of the integrated normal  assemble(abs(n[j]) * ds(tag))  are non-zero.  *)
(***************************************************************************)
Normals(d) == [1..d -> {0, 1}]

UnitMeshes ==
    { [dim |-> 1, normals |-> << <<1>>, <<1>> >>],
      [dim |-> 2, normals |-> << <<1, 0>>, <<1, 0>>, <<0, 1>>, <<0, 1>> >>],
      [dim |-> 3, normals |-> << <<1, 0, 0>>, <<1, 0, 0>>, <<0, 1, 0>>,
                                 <<0, 1, 0>>, <<0, 0, 1>>, <<0, 0, 1>> >>] }

\* a rotated square
OtherMeshes ==
    { [dim |-> 2, normals |-> << <<1, 1>>, <<1, 1>>, <<1, 1>>, <<1, 1>> >>] }

\* every mesh of at most MaxTags tags; an integrated normal vanishes in all
\* components when the tagged boundary is shorter than the tolerance of
\* np.allclose
GeneratedMeshes ==
    UNION { { [dim |-> d, normals |-> s] : s \in [1..n -> Normals(d)] } :
            d \in 1..3, n \in 0..MaxTags }

\* the coordinates of a freshly built mesh
Mesh0 == <<0, 1>>

(***************************************************************************)
(* User monitor functions: a scalar field computed from the geometry.      *)
(***************************************************************************)
const_monitor(x) == <<1, 1>>
ring_monitor(x) == <<1 + Abs(x[1]), 1 + Abs(x[2])>>

\* a monitor that is defined on the unit domain only: it raises when a node
\* has left the domain
guarded_monitor(x) == ring_monitor(x)
MonitorRaises(fn, x) ==
    fn = "guarded_monitor" /\ \E n \in Nodes : x[n] < 0 \/ x[n] > 1

CallMonitor(fn, x) == IF fn = "const_monitor" THEN const_monitor(x)
                      ELSE IF fn = "ring_monitor" THEN ring_monitor(x)
                      ELSE guarded_monitor(x)

(***************************************************************************)
(* What a call gives back to its caller                                    *)
(***************************************************************************)
NoResult == [kind |-> "none", msg |-> "", n |-> 0]
Returned(k) == [kind |-> "return", msg |-> "", n |-> k]
Raised(kind, msg, k) == [kind |-> kind, msg |-> msg, n |-> k]

Unbound == -1               \* a local of move() that was never assigned
NoNorm == <<-1, 1>>
NoHandle == [built |-> FALSE, bcs |-> << >>]
NoIterate == [phi |-> NoField, sigma |-> NoField]
NoSnes == [atol |-> <<0, 1>>, max_it |-> 0, iter |-> 0, sol |-> NoIterate,
           fnorm |-> <<0, 1>>, cand |-> NoIterate, cand_fnorm |-> <<0, 1>>,
           trials |-> 0, stage |-> "initial", w |-> NoIterate]

(***************************************************************************)
(* MongeAmpereMover_Base                                                   *)
(***************************************************************************)
\* an initial guess that is dropped, without an error, when half of it is
\* missing
apply_initial_guess_lenient(phi_init, sigma_init) ==
    IF phi_init # NoField /\ sigma_init # NoField
    THEN [err |-> "", phi |-> phi_init, sigma |-> sigma_init,
          phi_old |-> phi_init, sigma_old |-> sigma_init]
    ELSE [err |-> "", phi |-> Zero, sigma |-> Zero, phi_old |-> Zero,
          sigma_old |-> Zero]

\* apply_initial_guess: the four fields after the call, or the error
apply_initial_guess(phi_init, sigma_init) ==
    IF phi_init # NoField /\ sigma_init # NoField
    THEN [err |-> "", phi |-> phi_init, sigma |-> sigma_init,
          phi_old |-> phi_init, sigma_old |-> sigma_init]
    ELSE IF phi_init # NoField \/ sigma_init # NoField
    THEN [err |-> "Need to initialise both phi *and* sigma", phi |-> Zero,
          sigma |-> Zero, phi_old |-> Zero, sigma_old |-> Zero]
    ELSE [err |-> "", phi |-> Zero, sigma |-> Zero, phi_old |-> Zero,
          sigma_old |-> Zero]

\* det(I + sigma) of the one-component Hessian, node by node
Det(s) == <<1 + s[1], 1 + s[2]>>

\* assemble(theta_form) / total_volume, the total volume being 2
ThetaOf(m, s) == <<m[1] * Det(s)[1] + m[2] * Det(s)[2], 2>>

\* _diagnostics: square of residual_l2 / norm_l2, where the residual field is
\* monitor * det(I + sigma_old) - theta and the norm field is theta
Residual2(m, s, th) ==
    LET r(n) == m[n] * Det(s)[n] * th[2] - th[1]
    IN  <<r(1) * r(1) + r(2) * r(2), 2 * th[1] * th[1]>>

\* the x property: xi + grad_phi
X(ref, g) == <<ref[1] + g[1], ref[2] + g[2]>>

DirichletBC(space, tag) == [type |-> "DirichletBC", space |-> space, tag |-> tag]
EquationBC(part, tag, corners) ==
    [type |-> "EquationBC", part |-> part, tag |-> tag, corners |-> corners]

AllZero(n) == \A j \in DOMAIN n : n[j] = 0

\* corners taken between segments that are not axis-aligned only
Corners_nonaligned(m) ==
    LET edges == {k \in 1..Len(m.normals) :
                     \A j \in DOMAIN m.normals[k] : m.normals[k][j] # 0}
    IN  {c \in edges \X edges : c[1] # c[2]}

\* corners = [(i, j) for i in edges for j in edges.difference([i])]
Corners(m) ==
    LET edges == 1..Len(m.normals)
    IN  {c \in edges \X edges : c[1] # c[2]}

\* the loop of l2_projector over the boundary tags, from tag k on
RECURSIVE boundary_conditions(_, _, _, _)
boundary_conditions(m, fix, k, bcs) ==
    IF k > Len(m.normals) THEN [err |-> "", msg |-> "", bcs |-> bcs]
    ELSE LET n == m.normals[k]
             corners == Corners(m)
         IN
         IF fix
         THEN boundary_conditions(m, fix, k + 1,
                                  Append(bcs, DirichletBC("P1_vec", k)))
         ELSE IF AllZero(n)
         THEN [err |-> "ValueError", msg |-> "Invalid normal vector", bcs |-> bcs]
         ELSE IF m.dim # 2
         THEN [err |-> "NotImplementedError", msg |-> "", bcs |-> bcs]
         ELSE IF n[1] = 0
         THEN boundary_conditions(m, fix, k + 1,
                                  Append(bcs, DirichletBC("P1_vec.sub(1)", k)))
         ELSE IF n[2] = 0
         THEN boundary_conditions(m, fix, k + 1,
                                  Append(bcs, DirichletBC("P1_vec.sub(0)", k)))
         ELSE boundary_conditions(m, fix, k + 1,
                  bcs \o << EquationBC("normal", k, {}),
                            EquationBC("tangential", k, corners) >>)

\* the loop with the dimension tested after the axis-aligned cases
RECURSIVE boundary_conditions_aligned_first(_, _, _, _)
boundary_conditions_aligned_first(m, fix, k, bcs) ==
    IF k > Len(m.normals) THEN [err |-> "", msg |-> "", bcs |-> bcs]
    ELSE LET n == m.normals[k]
             edges == 1..Len(m.normals)
             corners == {c \in edges \X edges : c[1] # c[2]}
         IN
         IF fix
         THEN boundary_conditions_aligned_first(m, fix, k + 1,
                                  Append(bcs, DirichletBC("P1_vec", k)))
         ELSE IF AllZero(n)
         THEN [err |-> "ValueError", msg |-> "Invalid normal vector", bcs |-> bcs]
         ELSE IF n[1] = 0
         THEN boundary_conditions_aligned_first(m, fix, k + 1,
                                  Append(bcs, DirichletBC("P1_vec.sub(1)", k)))
         ELSE IF m.dim > 1 /\ n[2] = 0
         THEN boundary_conditions_aligned_first(m, fix, k + 1,
                                  Append(bcs, DirichletBC("P1_vec.sub(0)", k)))
         ELSE IF m.dim # 2
         THEN [err |-> "NotImplementedError", msg |-> "", bcs |-> bcs]
         ELSE boundary_conditions_aligned_first(m, fix, k + 1,
                  bcs \o << EquationBC("normal", k, {}),
                            EquationBC("tangential", k, corners) >>)

create_l2_projector_aligned_first(handle, m, fix) ==
    IF handle.built THEN [err |-> "", msg |-> "", bcs |-> handle.bcs]
    ELSE boundary_conditions_aligned_first(m, fix, 1, << >>)

\* the l2_projector property: the cached handle, or a newly built one
create_l2_projector(handle, m, fix) ==
    IF handle.built THEN [err |-> "", msg |-> "", bcs |-> handle.bcs]
    ELSE boundary_conditions(m, fix, 1, << >>)

\* l2_projector.solve(): the projection of grad(phi_old); a Dirichlet
\* condition on the whole vector pins the boundary node
Pinned(bcs) == \E k \in DOMAIN bcs :
                   bcs[k].type = "DirichletBC" /\ bcs[k].space = "P1_vec"
l2_solve(p, bcs) ==
    LET g == p[2] - p[1] IN <<IF Pinned(bcs) THEN 0 ELSE g, g>>

\* equidistributor.solve() of the relaxation: the recovered Hessian of phi
Hess(p) == LET g == p[2] - p[1] IN <<g * g, g * g>>

(***************************************************************************)
(* Solver handles                                                          *)
(*                                                                         *)
(* Every handle is a property that keeps its solver in a private attribute *)
(* of the mover.  constructed counts, for each handle, the solver objects  *)
(* the property has constructed on this mover.                             *)
(***************************************************************************)
SolverNames == {"l2_projector", "pseudotimestepper", "equidistributor",
                "facet_area_solver", "tangents_solver", "angles_solver"}

\* a property that constructs a new solver every time it is read
cached_rebuilt(has, n) == n + 1

\* the hasattr guard of a property: the solver is constructed only when the
\* attribute is absent
cached(has, n) == IF has THEN n ELSE n + 1

\* the counts after the property name has been read
Property(c, name, has) == [c EXCEPT ![name] = cached(has, @)]

(***************************************************************************)
(* Construction                                                            *)
(***************************************************************************)
params == <<mesh, method, monitor_function, maxiter, rtol, dtol,
            fix_boundary_nodes, xi>>
cfg == <<kwargs, params>>
fields == <<phi, sigma, phi_old, sigma_old>>
handles == <<l2_projector, pseudotimestepper, equidistributor, constructed>>
locals == <<i, initial_norm, residual>>
ghosts == <<samples, invoked>>
springs == <<f, displacement, K, todo>>

NoArgs == [monitor_function |-> None, phi_init |-> NoField,
           sigma_init |-> NoField]

\* no mover has been constructed
NoMover ==
    /\ pc = "new"
    /\ kwargs = NoArgs
    /\ method = None /\ monitor_function = None
    /\ maxiter = 0 /\ rtol = <<0, 1>> /\ dtol = <<0, 1>>
    /\ fix_boundary_nodes = FALSE
    /\ xi = Zero
    /\ phi = Zero /\ sigma = Zero /\ phi_old = Zero /\ sigma_old = Zero
    /\ grad_phi = Zero /\ monitor = Zero /\ theta = <<0, 1>>
    /\ l2_projector = NoHandle
    /\ pseudotimestepper = FALSE /\ equidistributor = FALSE
    /\ i = Unbound /\ initial_norm = NoNorm /\ residual = NoNorm
    /\ snes = NoSnes
    /\ result = NoResult
    /\ calls = 0 /\ updates = 0
    /\ samples = 0 /\ invoked = {}
    /\ f = << >> /\ displacement = << >> /\ K = << >> /\ todo = << >>
    /\ constructed = [h \in SolverNames |-> 0]

InitOn(meshes) ==
    /\ mesh \in meshes
    /\ coordinates = Mesh0
    /\ NoMover

Init == InitOn(UnitMeshes \cup OtherMeshes)

\* MongeAmpereMover_Relaxation.__init__ / MongeAmpereMover_QuasiNewton.__init__
Construct(mth, mf, mi, rt, dt, fix, phi_init, sigma_init) ==
    /\ pc = "new"
    /\ kwargs' = [monitor_function |-> mf, phi_init |-> phi_init,
                  sigma_init |-> sigma_init]
    /\ LET guess == apply_initial_guess(phi_init, sigma_init) IN
       IF mf = None
       THEN /\ pc' = "failed"
            /\ result' = Raised("ValueError", "Please supply a monitor function", 0)
            /\ UNCHANGED <<params, fields, monitor, coordinates>>
       ELSE IF guess.err # ""
       THEN /\ pc' = "failed"
            /\ result' = Raised("ValueError", guess.err, 0)
            /\ UNCHANGED <<params, fields, monitor, coordinates>>
       ELSE /\ pc' = "idle"
            /\ result' = NoResult
            /\ method' = mth /\ monitor_function' = mf
            /\ maxiter' = mi /\ rtol' = rt /\ dtol' = dt
            /\ fix_boundary_nodes' = fix
            /\ xi' = coordinates
            /\ monitor' = CallMonitor(mf, coordinates)
            /\ phi' = guess.phi /\ sigma' = guess.sigma
            /\ phi_old' = guess.phi_old /\ sigma_old' = guess.sigma_old
            /\ UNCHANGED <<mesh, coordinates>>
    /\ UNCHANGED <<grad_phi, theta, handles, locals, snes, calls, updates,
                   ghosts, springs>>

(***************************************************************************)
(* MongeAmpereMover_Relaxation.move                                        *)
(***************************************************************************)
\* the call itself: the assertions and the head of  for i in range(maxiter)
Move_Relaxation ==
    /\ pc = "idle" /\ method = "relaxation" /\ calls < MaxCalls
    /\ calls' = calls + 1
    /\ updates' = 0
    /\ result' = NoResult
    /\ initial_norm' = NoNorm /\ residual' = NoNorm
    /\ IF maxiter > 0 THEN i' = 0 /\ pc' = "project"
                      ELSE i' = Unbound /\ pc' = "commit"
    /\ samples' = 0 /\ invoked' = {}
    /\ UNCHANGED <<cfg, springs, coordinates, fields, grad_phi, monitor, theta,
                   handles, snes>>

\* self.l2_projector.solve()
Project ==
    /\ pc = "project"
    /\ LET built == create_l2_projector(l2_projector, mesh, fix_boundary_nodes) IN
       IF built.err # ""
       THEN /\ pc' = "idle"
            /\ result' = Raised(built.err, built.msg, 0)
            /\ UNCHANGED <<l2_projector, grad_phi, constructed>>
       ELSE /\ pc' = "trial"
            /\ l2_projector' = [built |-> TRUE, bcs |-> built.bcs]
            /\ constructed' = Property(constructed, "l2_projector",
                                       l2_projector.built)
            /\ grad_phi' = l2_solve(phi_old, built.bcs)
            /\ UNCHANGED result
    /\ UNCHANGED <<cfg, springs, ghosts, coordinates, fields, monitor, theta,
                   pseudotimestepper, equidistributor, locals, snes, calls,
                   updates>>

\* an iteration that samples the monitor on the reference mesh
TrialMove_skipped ==
    /\ pc = "trial"
    /\ coordinates' = xi
    /\ pc' = "resample"
    /\ UNCHANGED <<cfg, springs, ghosts, fields, grad_phi, monitor, theta,
                   handles, locals, snes, result, calls, updates>>

\* self.mesh.coordinates.assign(self.x)
TrialMove ==
    /\ pc = "trial"
    /\ coordinates' = X(xi, grad_phi)
    /\ pc' = "resample"
    /\ UNCHANGED <<cfg, springs, ghosts, fields, grad_phi, monitor, theta,
                   handles, locals, snes, result, calls, updates>>

\* a resample with the monitor function the mover was constructed with
Resample_captured ==
    /\ pc = "resample"
    /\ samples' = samples + 1
    /\ invoked' = invoked \cup {kwargs.monitor_function}
    /\ IF MonitorRaises(kwargs.monitor_function, coordinates)
       THEN /\ pc' = "idle"
            /\ result' = Raised("MonitorError", "", 0)
            /\ UNCHANGED monitor
       ELSE /\ monitor' = CallMonitor(kwargs.monitor_function, coordinates)
            /\ pc' = "restore"
            /\ UNCHANGED result
    /\ UNCHANGED <<cfg, springs, coordinates, fields, grad_phi, theta, handles,
                   locals, snes, calls, updates>>

\* self.monitor.interpolate(self.monitor_function(self.mesh)); an error of
\* the monitor function ends move() where it is raised
Resample ==
    /\ pc = "resample"
    /\ samples' = samples + 1
    /\ invoked' = invoked \cup {monitor_function}
    /\ IF MonitorRaises(monitor_function, coordinates)
       THEN /\ pc' = "idle"
            /\ result' = Raised("MonitorError", "", 0)
            /\ UNCHANGED monitor
       ELSE /\ monitor' = CallMonitor(monitor_function, coordinates)
            /\ pc' = "restore"
            /\ UNCHANGED result
    /\ UNCHANGED <<cfg, springs, coordinates, fields, grad_phi, theta, handles,
                   locals, snes, calls, updates>>

\* a move() that leaves the trial coordinates on the mesh
Restore_forgotten ==
    /\ pc = "restore"
    /\ pc' = "test"
    /\ UNCHANGED <<cfg, springs, ghosts, coordinates, fields, grad_phi, monitor,
                   theta, handles, locals, snes, result, calls, updates>>

\* self.mesh.coordinates.assign(self.xi)
Restore ==
    /\ pc = "restore"
    /\ coordinates' = xi
    /\ pc' = "test"
    /\ UNCHANGED <<cfg, springs, ghosts, fields, grad_phi, monitor, theta,
                   handles, locals, snes, result, calls, updates>>

\* the divergence test tried before the convergence test
convergence_test_diverged_first(res, init, k) ==
    IF Less(Times(Sq(dtol), init), res) THEN "Diverged"
    ELSE IF Less(res, Sq(rtol)) THEN "Converged"
    ELSE IF k = maxiter - 1 THEN "Failed to converge"
    ELSE "continue"

\* the divergence test made against dtol itself, not against the residual
\* of iteration 0
convergence_test_absolute_dtol(res, init, k) ==
    IF Less(res, Sq(rtol)) THEN "Converged"
    ELSE IF Less(Sq(dtol), res) THEN "Diverged"
    ELSE IF k = maxiter - 1 THEN "Failed to converge"
    ELSE "continue"

\* the three termination tests, in the order of the source
convergence_test(res, init, k) ==
    IF Less(res, Sq(rtol)) THEN "Converged"
    ELSE IF Less(Times(Sq(dtol), init), res) THEN "Diverged"
    ELSE IF k = maxiter - 1 THEN "Failed to converge"
    ELSE "continue"

\* theta, the diagnostics and the convergence criteria
Test ==
    /\ pc = "test"
    /\ theta' = ThetaOf(monitor, sigma_old)
    /\ residual' = Residual2(monitor, sigma_old, theta')
    /\ initial_norm' = IF i = 0 THEN residual' ELSE initial_norm
    /\ LET verdict == convergence_test(residual', initial_norm', i) IN
       CASE verdict = "Converged" -> pc' = "commit" /\ UNCHANGED result
         [] verdict = "continue" -> pc' = "update" /\ UNCHANGED result
         [] OTHER -> /\ pc' = "idle"
                     /\ result' = Raised("ConvergenceError", verdict, i + 1)
    /\ UNCHANGED <<cfg, springs, ghosts, coordinates, fields, grad_phi, monitor,
                   handles, i, snes, calls, updates>>

\* pseudotimestepper.solve(), equidistributor.solve() and the two assignments
Update ==
    /\ pc = "update"
    /\ pseudotimestepper' = TRUE
    /\ \E p \in PhiFields :
          /\ phi' = p
          /\ IF ~equidistributor /\ mesh.dim # 2
             THEN /\ pc' = "idle"
                  /\ result' = Raised("NotImplementedError", "", 0)
                  /\ constructed' = Property(constructed, "pseudotimestepper",
                                             pseudotimestepper)
                  /\ UNCHANGED <<sigma, phi_old, sigma_old, equidistributor, i,
                                 updates, samples>>
             ELSE /\ equidistributor' = TRUE
                  /\ constructed' =
                         Property(Property(constructed, "pseudotimestepper",
                                           pseudotimestepper),
                                  "equidistributor", equidistributor)
                  /\ sigma' = Hess(p)
                  /\ phi_old' = p
                  /\ sigma_old' = Hess(p)
                  /\ i' = i + 1
                  /\ updates' = updates + 1
                  /\ samples' = 0
                  /\ pc' = "project"
                  /\ UNCHANGED result
    /\ UNCHANGED <<cfg, springs, invoked, coordinates, grad_phi, monitor, theta,
                   l2_projector, initial_norm, residual, snes, calls>>

\* a move() that returns the iteration count of its message, i + 1
Commit_count_of_message ==
    /\ pc = "commit"
    /\ coordinates' = X(xi, grad_phi)
    /\ result' = IF i = Unbound THEN Raised("UnboundLocalError", "", 0)
                 ELSE Returned(i + 1)
    /\ pc' = "idle"
    /\ UNCHANGED <<cfg, springs, ghosts, fields, grad_phi, monitor, theta,
                   handles, locals, snes, calls, updates>>

\* after the loop: self.mesh.coordinates.assign(self.x); return i
Commit ==
    /\ pc = "commit"
    /\ coordinates' = X(xi, grad_phi)
    /\ result' = IF i = Unbound THEN Raised("UnboundLocalError", "", 0)
                 ELSE Returned(i)
    /\ pc' = "idle"
    /\ UNCHANGED <<cfg, springs, ghosts, fields, grad_phi, monitor, theta,
                   handles, locals, snes, calls, updates>>

(***************************************************************************)
(* MongeAmpereMover_QuasiNewton                                            *)
(*                                                                         *)
(* The nonlinear solver is external.  It keeps its solution in a vector of *)
(* its own (snes.sol), evaluates the residual at trial iterates and the    *)
(* Jacobian at the solution, copying the evaluation point into phisigma    *)
(* and calling the refresh callback before each evaluation; after every    *)
(* completed iteration it calls the progress callback and then tests       *)
(* convergence.  Which trial iterate a line search accepts is its own      *)
(* business.                                                               *)
(***************************************************************************)
Iterates == UNION { {[phi |-> p, sigma |-> s] : s \in {Zero, Hess(p)}} :
                    p \in PhiFields }

\* a callback that recomputes theta before it resamples the monitor
update_monitor_theta_first(cursol) ==
    LET built == create_l2_projector(l2_projector, mesh, fix_boundary_nodes)
        g == l2_solve(cursol.phi, built.bcs)
        trial == X(xi, g)
        raises == MonitorRaises(monitor_function, trial)
        m == CallMonitor(monitor_function, trial)
        done == built.err = "" /\ ~raises
    IN  [err |-> IF built.err # "" THEN built.err
                 ELSE IF raises THEN "MonitorError" ELSE "",
         msg |-> built.msg,
         phi_old |-> cursol.phi, sigma_old |-> cursol.sigma,
         l2_projector |-> IF built.err = ""
                          THEN [built |-> TRUE, bcs |-> built.bcs]
                          ELSE l2_projector,
         constructed |-> IF built.err = ""
                         THEN Property(constructed, "l2_projector",
                                       l2_projector.built)
                         ELSE constructed,
         grad_phi |-> IF built.err = "" THEN g ELSE grad_phi,
         coordinates |-> IF built.err # "" THEN coordinates
                         ELSE IF raises THEN trial ELSE xi,
         invoked |-> IF built.err = "" THEN invoked \cup {monitor_function}
                     ELSE invoked,
         monitor |-> IF done THEN m ELSE monitor,
         theta |-> IF built.err = "" THEN ThetaOf(monitor, cursol.sigma)
                   ELSE theta]

\* update_monitor(cursol): the state after the callback.  Its statements run
\* in the order of the source: the copy into phisigma_old, the gradient
\* recovery, the trial coordinates, the monitor, the reference coordinates,
\* theta; an error of the gradient recovery or of the monitor function ends
\* the callback where it is raised.
update_monitor(cursol) ==
    LET built == create_l2_projector(l2_projector, mesh, fix_boundary_nodes)
        g == l2_solve(cursol.phi, built.bcs)
        trial == X(xi, g)
        raises == MonitorRaises(monitor_function, trial)
        m == CallMonitor(monitor_function, trial)
        done == built.err = "" /\ ~raises
    IN  [err |-> IF built.err # "" THEN built.err
                 ELSE IF raises THEN "MonitorError" ELSE "",
         msg |-> built.msg,
         phi_old |-> cursol.phi, sigma_old |-> cursol.sigma,
         l2_projector |-> IF built.err = ""
                          THEN [built |-> TRUE, bcs |-> built.bcs]
                          ELSE l2_projector,
         constructed |-> IF built.err = ""
                         THEN Property(constructed, "l2_projector",
                                       l2_projector.built)
                         ELSE constructed,
         grad_phi |-> IF built.err = "" THEN g ELSE grad_phi,
         coordinates |-> IF built.err # "" THEN coordinates
                         ELSE IF raises THEN trial ELSE xi,
         invoked |-> IF built.err = "" THEN invoked \cup {monitor_function}
                     ELSE invoked,
         monitor |-> IF done THEN m ELSE monitor,
         theta |-> IF done THEN ThetaOf(m, cursol.sigma) ELSE theta]

\* square of the norm of the residual F at iterate x: the Monge-Ampere
\* equation  monitor * det(I + sigma) - theta  and the Hessian equation
FNorm2(x, m, th) ==
    LET r(n) == m[n] * Det(x.sigma)[n] * th[2] - th[1]
        h(n) == x.sigma[n] - Hess(x.phi)[n]
    IN  <<r(1) * r(1) + r(2) * r(2) + th[2] * th[2] * (h(1) * h(1) + h(2) * h(2)),
          th[2] * th[2]>>

\* move(): the equidistributor property, then the start of solve()
Move_QuasiNewton ==
    /\ pc = "idle" /\ method = "quasi_newton" /\ calls < MaxCalls
    /\ calls' = calls + 1
    /\ updates' = 0
    /\ samples' = 0 /\ invoked' = {}
    /\ IF ~equidistributor /\ mesh.dim # 2
       THEN /\ pc' = "idle"
            /\ result' = Raised("NotImplementedError", "", 0)
            /\ UNCHANGED <<equidistributor, snes, constructed>>
       ELSE /\ pc' = "snes_function"
            /\ result' = NoResult
            /\ equidistributor' = TRUE
            /\ constructed' = Property(constructed, "equidistributor",
                                       equidistributor)
            /\ snes' = [atol |-> IF equidistributor THEN snes.atol ELSE rtol,
                        max_it |-> IF equidistributor THEN snes.max_it ELSE maxiter,
                        iter |-> 0,
                        sol |-> [phi |-> phi, sigma |-> sigma],
                        fnorm |-> <<0, 1>>,
                        cand |-> NoIterate, cand_fnorm |-> <<0, 1>>,
                        trials |-> 0, stage |-> "initial",
                        w |-> [phi |-> phi, sigma |-> sigma]]
    /\ UNCHANGED <<cfg, springs, coordinates, fields, grad_phi, monitor, theta,
                   l2_projector, pseudotimestepper, locals>>

\* a residual evaluation at snes.w, with pre_function_callback
SnesFunction ==
    /\ pc = "snes_function"
    /\ LET um == update_monitor(snes.w) IN
       /\ phi' = snes.w.phi /\ sigma' = snes.w.sigma
       /\ phi_old' = um.phi_old /\ sigma_old' = um.sigma_old
       /\ l2_projector' = um.l2_projector
       /\ constructed' = um.constructed
       /\ grad_phi' = um.grad_phi
       /\ coordinates' = um.coordinates
       /\ monitor' = um.monitor
       /\ theta' = um.theta
       /\ invoked' = um.invoked
       /\ IF um.err # ""
          THEN /\ pc' = "idle"
               /\ result' = Raised(um.err, um.msg, 0)
               /\ UNCHANGED snes
          ELSE LET norm2 == FNorm2(snes.w, um.monitor, um.theta) IN
               /\ UNCHANGED result
               /\ IF snes.stage = "initial"
                  THEN /\ pc' = "snes_monitor"
                       /\ snes' = [snes EXCEPT !.fnorm = norm2]
                  ELSE /\ pc' = "snes_linesearch"
                       /\ \/ snes' = [snes EXCEPT !.cand = snes.w,
                                                  !.cand_fnorm = norm2]
                          \/ /\ snes.cand # NoIterate
                             /\ UNCHANGED snes
    /\ UNCHANGED <<cfg, springs, samples, pseudotimestepper, equidistributor,
                   locals, calls, updates>>

\* the line search: one more trial iterate, or the end of the iteration
SnesLinesearch ==
    /\ pc = "snes_linesearch"
    /\ \/ /\ snes.trials < MaxTrials
          /\ \E w \in Iterates :
                snes' = [snes EXCEPT !.w = w, !.trials = snes.trials + 1]
          /\ pc' = "snes_function"
       \/ /\ snes.cand # NoIterate
          /\ snes' = [snes EXCEPT !.sol = snes.cand, !.fnorm = snes.cand_fnorm,
                                  !.iter = snes.iter + 1]
          /\ pc' = "snes_monitor"
    /\ UNCHANGED <<cfg, springs, ghosts, coordinates, fields, grad_phi, monitor,
                   theta, handles, locals, result, calls, updates>>

\* a progress callback that only prints
SnesMonitor_prints_only ==
    /\ pc = "snes_monitor"
    /\ pc' = "snes_converged"
    /\ UNCHANGED <<cfg, springs, ghosts, coordinates, fields, grad_phi, monitor,
                   theta, handles, locals, snes, result, calls, updates>>

\* a progress callback that also copies the solution into phisigma
SnesMonitor_writes_iterate ==
    /\ pc = "snes_monitor"
    /\ LET um == update_monitor(snes.sol) IN
       /\ phi' = snes.sol.phi /\ sigma' = snes.sol.sigma
       /\ phi_old' = um.phi_old /\ sigma_old' = um.sigma_old
       /\ l2_projector' = um.l2_projector
       /\ constructed' = um.constructed
       /\ grad_phi' = um.grad_phi
       /\ monitor' = um.monitor
       /\ theta' = um.theta
       /\ invoked' = um.invoked
       /\ coordinates' = xi
    /\ pc' = "snes_converged"
    /\ UNCHANGED <<cfg, springs, samples, pseudotimestepper, equidistributor,
                   locals, snes, result, calls, updates>>

\* monitor(snes, i, rnorm), the callback of every completed iteration
SnesMonitor ==
    /\ pc = "snes_monitor"
    /\ LET um == update_monitor(snes.sol) IN
       /\ phi_old' = um.phi_old /\ sigma_old' = um.sigma_old
       /\ l2_projector' = um.l2_projector
       /\ constructed' = um.constructed
       /\ grad_phi' = um.grad_phi
       /\ monitor' = um.monitor
       /\ theta' = um.theta
       /\ invoked' = um.invoked
       /\ IF um.err # ""
          THEN /\ coordinates' = um.coordinates
               /\ pc' = "idle"
               /\ result' = Raised(um.err, um.msg, 0)
          ELSE /\ coordinates' = xi
               /\ pc' = "snes_converged"
               /\ UNCHANGED result
    /\ UNCHANGED <<cfg, springs, samples, phi, sigma, pseudotimestepper,
                   equidistributor, locals, snes, calls, updates>>

\* the convergence test of the solver and, when the solve ends, the rest of
\* move()
SnesConverged ==
    /\ pc = "snes_converged"
    /\ IF Less(snes.fnorm, Sq(snes.atol))
       THEN /\ phi' = snes.sol.phi /\ sigma' = snes.sol.sigma
            /\ i' = snes.iter
            /\ coordinates' = X(xi, grad_phi)
            /\ result' = Returned(snes.iter)
            /\ pc' = "idle"
       ELSE IF snes.iter >= snes.max_it
       THEN /\ phi' = snes.sol.phi /\ sigma' = snes.sol.sigma
            /\ i' = snes.iter
            /\ result' = Raised("ConvergenceError", "Failed to converge", snes.iter)
            /\ pc' = "idle"
            /\ UNCHANGED coordinates
       ELSE /\ pc' = "snes_jacobian"
            /\ UNCHANGED <<phi, sigma, i, coordinates, result>>
    /\ UNCHANGED <<cfg, springs, ghosts, phi_old, sigma_old, grad_phi, monitor,
                   theta, handles, initial_norm, residual, snes, calls, updates>>

\* a Jacobian evaluation at the solution, with pre_jacobian_callback
SnesJacobian ==
    /\ pc = "snes_jacobian"
    /\ LET um == update_monitor(snes.sol) IN
       /\ phi' = snes.sol.phi /\ sigma' = snes.sol.sigma
       /\ phi_old' = um.phi_old /\ sigma_old' = um.sigma_old
       /\ l2_projector' = um.l2_projector
       /\ constructed' = um.constructed
       /\ grad_phi' = um.grad_phi
       /\ coordinates' = um.coordinates
       /\ monitor' = um.monitor
       /\ theta' = um.theta
       /\ invoked' = um.invoked
       /\ IF um.err # ""
          THEN /\ pc' = "idle"
               /\ result' = Raised(um.err, um.msg, 0)
               /\ UNCHANGED snes
          ELSE /\ pc' = "snes_linesearch"
               /\ snes' = [snes EXCEPT !.stage = "linesearch", !.trials = 0,
                                       !.cand = NoIterate,
                                       !.cand_fnorm = <<0, 1>>]
               /\ UNCHANGED result
    /\ UNCHANGED <<cfg, springs, samples, pseudotimestepper, equidistributor,
                   locals, calls, updates>>

(***************************************************************************)
(* The l2_projector property read by a caller of an idle mover             *)
(***************************************************************************)
Get_l2_projector ==
    /\ pc = "idle" /\ result = NoResult /\ calls = 0
    /\ LET built == create_l2_projector(l2_projector, mesh, fix_boundary_nodes) IN
       IF built.err # ""
       THEN /\ result' = Raised(built.err, built.msg, 0)
            /\ UNCHANGED <<l2_projector, constructed>>
       ELSE /\ result' = Returned(0)
            /\ l2_projector' = [built |-> TRUE, bcs |-> built.bcs]
            /\ constructed' = Property(constructed, "l2_projector",
                                       l2_projector.built)
    /\ UNCHANGED <<cfg, springs, ghosts, pc, coordinates, fields, grad_phi,
                   monitor, theta, pseudotimestepper, equidistributor, locals,
                   snes, calls, updates>>

(***************************************************************************)
(* The monitor function replaced in place, between two calls               *)
(***************************************************************************)
AllMonitors == MonitorFunctions \cup {"guarded_monitor"}

\* mover.monitor_function = fn
Set_monitor_function ==
    /\ pc = "idle" /\ calls < MaxCalls
    /\ \E fn \in AllMonitors :
          fn # monitor_function /\ monitor_function' = fn
    /\ UNCHANGED <<kwargs, mesh, method, maxiter, rtol, dtol, fix_boundary_nodes,
                   xi, springs, ghosts, pc, coordinates, fields, grad_phi,
                   monitor, theta, handles, locals, snes, result, calls,
                   updates>>

\* the tolerances of a mover that is moved again: a loose one besides
\* RTolValues
Tolerances == RTolValues \cup {<<1, 1>>}

\* mover.rtol = rt
Set_rtol ==
    /\ pc = "idle" /\ calls < MaxCalls
    /\ \E rt \in Tolerances : rt # rtol /\ rtol' = rt
    /\ UNCHANGED <<kwargs, mesh, method, monitor_function, maxiter, dtol,
                   fix_boundary_nodes, xi, springs, ghosts, pc, coordinates,
                   fields, grad_phi, monitor, theta, handles, locals, snes,
                   result, calls, updates>>

\* mover.maxiter = mi
Set_maxiter ==
    /\ pc = "idle" /\ calls < MaxCalls
    /\ \E mi \in 1..MaxIter : mi # maxiter /\ maxiter' = mi
    /\ UNCHANGED <<kwargs, mesh, method, monitor_function, rtol, dtol,
                   fix_boundary_nodes, xi, springs, ghosts, pc, coordinates,
                   fields, grad_phi, monitor, theta, handles, locals, snes,
                   result, calls, updates>>

(***************************************************************************)
(* Spring movers.  A mesh is given by its vertex coordinates (x and y of   *)
(* vertex v at 2v - 1 and 2v), the two vertices of every edge, the         *)
(* boundary marker of every edge (0 for an interior edge) and the          *)
(* orientation of the tangent of every edge.                               *)
(***************************************************************************)
UnitTriangleMesh ==
    [dim |-> 2, x |-> <<0, 0, 1, 0, 0, 1>>,
     cone |-> << <<1, 2>>, <<2, 3>>, <<3, 1>> >>,
     marker |-> <<1, 2, 3>>, orientation |-> <<1, 1, 1>>]

\* a rectangle of sides 3 and 4 cut along a diagonal
RectangleMesh ==
    [dim |-> 2, x |-> <<0, 0, 3, 0, 3, 4, 0, 4>>,
     cone |-> << <<1, 2>>, <<2, 3>>, <<3, 4>>, <<4, 1>>, <<1, 3>> >>,
     marker |-> <<3, 2, 4, 1, 0>>, orientation |-> <<1, 1, 1, 1, -1>>]

\* four triangles around an interior vertex
DiamondMesh ==
    [dim |-> 2, x |-> <<0, 0, 1, 0, 0, 1, -1, 0, 0, -1>>,
     cone |-> << <<2, 3>>, <<3, 4>>, <<4, 5>>, <<5, 2>>,
                 <<1, 2>>, <<1, 3>>, <<1, 4>>, <<1, 5>> >>,
     marker |-> <<1, 1, 1, 1, 0, 0, 0, 0>>,
     orientation |-> <<1, 1, 1, 1, 1, -1, 1, -1>>]

SpringMeshes == {UnitTriangleMesh, RectangleMesh, DiamondMesh}

Dofs(m) == 1..Len(m.x)
Edges(m) == 1..Len(m.cone)
\* mesh.exterior_facets.unique_markers
unique_markers(m) == {m.marker[e] : e \in Edges(m)} \ {0}
\* the vertex of a degree of freedom
VertexOf(k) == (k + 1) \div 2
BoundaryVertices(m) ==
    {v \in 1..(Len(m.x) \div 2) :
        \E e \in Edges(m) : m.marker[e] # 0 /\ v \in {m.cone[e][1], m.cone[e][2]}}

\* rationals in lowest terms
RECURSIVE GCD(_, _)
GCD(a, b) == IF b = 0 THEN a ELSE GCD(b, a % b)
Rat(n, d) == LET g == GCD(Abs(n), d) IN <<n \div g, d \div g>>
RAdd(a, b) == Rat(a[1] * b[2] + b[1] * a[2], a[2] * b[2])
RMul(a, b) == Rat(a[1] * b[1], a[2] * b[2])
RNeg(a) == <<-a[1], a[2]>>
RZero == <<0, 1>>
ROne == <<1, 1>>

\* the vector from the first to the second vertex of edge e
EdgeVector(m, x, e) ==
    LET a == m.cone[e][1]
        b == m.cone[e][2]
    IN  <<x[2 * b - 1] - x[2 * a - 1], x[2 * b] - x[2 * a]>>
Length2(m, x, e) ==
    LET d == EdgeVector(m, x, e) IN d[1] * d[1] + d[2] * d[2]

\* the interior edges have lengths the model can represent
RationalLengths(m, x) ==
    \A e \in Edges(m) :
       m.marker[e] = 0 => \E r \in 1..MaxLength : r * r = Length2(m, x, e)

\* facet_areas: the length of edge e
facet_areas(m, x, e) == CHOOSE r \in 1..MaxLength : r * r = Length2(m, x, e)

\* tangents: the unit tangent of edge e
tangents(m, x, e) ==
    LET d == EdgeVector(m, x, e)
        l == facet_areas(m, x, e)
    IN  <<Rat(m.orientation[e] * d[1], l), Rat(m.orientation[e] * d[2], l)>>

\* angles: arccos of the x component of the tangent, an angle of [0, pi],
\* given by its cosine and its sine
angles(m, x, e) ==
    LET t == tangents(m, x, e) IN
    [c |-> t[1], s |-> <<Abs(t[2][1]), t[2][2]>>]

\* an interior edge whose mixed terms are added with opposite signs
InteriorEdge_skew(m, x, e) ==
    LET l == <<1, facet_areas(m, x, e)>>
        c == angles(m, x, e).c
        s == angles(m, x, e).s
        cc == RMul(RMul(c, c), l)
        sc == RMul(RMul(s, c), l)
        ss == RMul(RMul(s, s), l)
    IN  << <<cc, sc, RNeg(cc), RNeg(sc)>>,
           <<RNeg(sc), ss, sc, RNeg(ss)>>,
           <<RNeg(cc), RNeg(sc), cc, sc>>,
           <<sc, RNeg(ss), RNeg(sc), ss>> >>

\* the sixteen additions of an interior edge, over the degrees of freedom
\* 2i, 2i + 1, 2j, 2j + 1
InteriorEdge(m, x, e) ==
    LET l == <<1, facet_areas(m, x, e)>>
        c == angles(m, x, e).c
        s == angles(m, x, e).s
        cc == RMul(RMul(c, c), l)
        sc == RMul(RMul(s, c), l)
        ss == RMul(RMul(s, s), l)
    IN  << <<cc, sc, RNeg(cc), RNeg(sc)>>,
           <<sc, ss, RNeg(sc), RNeg(ss)>>,
           <<RNeg(cc), RNeg(sc), cc, sc>>,
           <<RNeg(sc), RNeg(ss), sc, ss>> >>

\* the four additions of a boundary edge
BoundaryEdge ==
    << <<ROne, RZero, RZero, RZero>>,
       <<RZero, ROne, RZero, RZero>>,
       <<RZero, RZero, ROne, RZero>>,
       <<RZero, RZero, RZero, ROne>> >>

\* one pass of the loop over the edges
AddEdge(m, x, e, A) ==
    LET vi == m.cone[e][1]
        vj == m.cone[e][2]
        dofs == <<2 * vi - 1, 2 * vi, 2 * vj - 1, 2 * vj>>
        B == IF m.marker[e] # 0 THEN BoundaryEdge ELSE InteriorEdge(m, x, e)
        at(k) == CHOOSE a \in 1..4 : dofs[a] = k
        touched == {dofs[a] : a \in 1..4}
    IN  [r \in Dofs(m) |->
           [c \in Dofs(m) |->
              IF r \in touched /\ c \in touched
              THEN RAdd(A[r][c], B[at(r)][at(c)])
              ELSE A[r][c]]]

RECURSIVE Assemble(_, _, _, _)
Assemble(m, x, e, A) ==
    IF e > Len(m.cone) THEN A
    ELSE Assemble(m, x, e + 1, AddEdge(m, x, e, A))

\* the stiffness_matrix property
stiffness_matrix(m, x) ==
    Assemble(m, x, 1, [r \in Dofs(m) |-> [c \in Dofs(m) |-> RZero]])

RECURSIVE Dot(_, _, _)
Dot(row, u, k) ==
    IF k = 0 THEN RZero
    ELSE RAdd(Dot(row, u, k - 1), RMul(row[k], <<u[k], 1>>))
MatVec(A, u) == [r \in DOMAIN A |-> Dot(A[r], u, Len(u))]

\* displacements of whole units: none, all degrees of freedom, the first
\* or the last degree of freedom alone
Displacements(m) ==
    {[k \in Dofs(m) |-> 0], [k \in Dofs(m) |-> 1], [k \in Dofs(m) |-> -1]}
    \cup {[k \in Dofs(m) |-> IF k = d THEN 1 ELSE 0] : d \in {1, Len(m.x)}}

\* np.linalg.solve(K, rhs)
Solve(A, rhs) == CHOOSE u \in Displacements(mesh) : MatVec(A, u) = rhs

\* a Dirichlet condition: its function space, its sub_domain (a tuple of
\* boundary markers, or the string "on_boundary") and its value (0, or a
\* Function of x component 1 and y component -1)
Condition(space, kind, tags, value) ==
    [space |-> space, sub_domain |-> [kind |-> kind, tags |-> tags],
     value |-> value]
DefaultCondition == Condition("coord_space", "str", {}, 0)
Conditions ==
    {Condition("coord_space", "ints", {1}, 0),
     Condition("coord_space", "ints", {1}, 1),
     Condition("coord_space", "ints", {1, 2}, 0),
     Condition("coord_space", "ints", {5}, 0),
     Condition("P2_vec", "ints", {1}, 0)}
ConditionArgs ==
    {<< >>} \cup {<<c>> : c \in Conditions}
            \cup {<<Condition("coord_space", "ints", {1}, 1), c>> :
                     c \in Conditions}

\* tags that are not compared with the markers of the mesh
ValidTags_unchecked(sd, m) == sd.kind = "ints"

\* the elements of a string are characters and no marker is one
ValidTags(sd, m) == sd.kind = "ints" /\ sd.tags \subseteq unique_markers(m)

boundary_data(bc, k) == IF bc.value = 0 THEN 0
                        ELSE IF k % 2 = 1 THEN 1 ELSE -1

\* one pass of the loop over the conditions in apply_dirichlet_conditions
apply_dirichlet_condition(m, bc, d) ==
    IF bc.space # "coord_space"
    THEN [err |-> "ValueError",
          msg |-> "Boundary conditions must have coord_space as their function space",
          tags |-> {}, displacement |-> d]
    ELSE IF ~ValidTags(bc.sub_domain, m)
    THEN [err |-> "ValueError", msg |-> "contains invalid boundary tags",
          tags |-> bc.sub_domain.tags, displacement |-> d]
    ELSE [err |-> "", msg |-> "", tags |-> {},
          displacement |->
             [k \in DOMAIN d |->
                IF \E e \in Edges(m) :
                      /\ m.marker[e] \in bc.sub_domain.tags
                      /\ VertexOf(k) \in {m.cone[e][1], m.cone[e][2]}
                THEN boundary_data(bc, k)
                ELSE d[k]]]

SpringArgs(variant, positional, tag) ==
    [variant |-> variant, positional |-> positional, method |-> tag]

\* SpringMover_Base.__init__(self, mesh, **kwargs) called with the mesh and
\* the positional arguments after it
SpringMover_Base(variant, positional, tag) ==
    /\ pc = "new"
    /\ kwargs' = SpringArgs(variant, positional, tag)
    /\ IF Len(positional) > 0
       THEN /\ pc' = "failed"
            /\ result' = Raised("TypeError", "positional arguments", 0)
            /\ UNCHANGED <<method, f, displacement>>
       ELSE IF variant = "torsional"
       THEN /\ pc' = "failed"
            /\ result' = Raised("NotImplementedError",
                                "Torsional springs not yet implemented", 0)
            /\ UNCHANGED <<method, f, displacement>>
       ELSE /\ pc' = "idle"
            /\ result' = NoResult
            /\ method' = variant
            /\ f' = [k \in Dofs(mesh) |-> RZero]
            /\ displacement' = [v \in 1..(Len(mesh.x) \div 2) |-> 0]
    /\ UNCHANGED <<mesh, coordinates, monitor_function, maxiter, rtol, dtol,
                   fix_boundary_nodes, xi, fields, grad_phi, monitor, theta,
                   handles, locals, snes, calls, updates, ghosts, K, todo>>

\* SpringMover(mesh, *positional, method=tag); tag None: no keyword given
SpringMover(positional, tag) ==
    IF Len(positional) > 0 /\ tag # None
    THEN /\ pc = "new"
         /\ kwargs' = SpringArgs(tag, positional, tag)
         /\ pc' = "failed"
         /\ result' = Raised("TypeError", "multiple values for argument 'method'", 0)
         /\ UNCHANGED <<params, springs, coordinates, fields, grad_phi, monitor,
                        theta, handles, locals, snes, calls, updates, ghosts>>
    ELSE LET bound == IF Len(positional) > 0 THEN positional[1]
                      ELSE IF tag = None THEN "lineal" ELSE tag
         IN  IF bound \in {"lineal", "torsional"}
             THEN SpringMover_Base(bound, << >>, tag)
             ELSE /\ pc = "new"
                  /\ kwargs' = SpringArgs(bound, positional, tag)
                  /\ pc' = "failed"
                  /\ result' = Raised("ValueError", "Method not recognised", 0)
                  /\ UNCHANGED <<params, springs, coordinates, fields, grad_phi,
                                 monitor, theta, handles, locals, snes, calls,
                                 updates, ghosts>>

\* MongeAmpereMover(mesh, monitor_function, method=tag, **kwargs)
MongeAmpereMover(tag, mf, mi, rt, dt, fix, phi_init, sigma_init) ==
    IF tag = "relaxation" \/ tag = "quasi_newton"
    THEN Construct(tag, mf, mi, rt, dt, fix, phi_init, sigma_init)
    ELSE /\ pc = "new"
         /\ kwargs' = [monitor_function |-> mf, phi_init |-> phi_init,
                       sigma_init |-> sigma_init, method |-> tag]
         /\ pc' = "failed"
         /\ result' = Raised("ValueError", "Method not recognised", 0)
         /\ UNCHANGED <<params, springs, coordinates, fields, grad_phi, monitor,
                        theta, handles, locals, snes, calls, updates, ghosts>>

\* SpringMover_Lineal.move(time, update_forcings, boundary_conditions) up to
\* the linear solve
Move_Lineal ==
    /\ pc = "idle" /\ method = "lineal" /\ calls < MaxCalls
    /\ RationalLengths(mesh, coordinates)
    /\ LET A == stiffness_matrix(mesh, coordinates) IN
       /\ K' = A
       /\ \E u \in Displacements(mesh), update_forcings \in BOOLEAN :
             LET rhs == IF update_forcings THEN MatVec(A, u) ELSE f IN
             /\ \E sol \in Displacements(mesh) : MatVec(A, sol) = rhs
             /\ f' = rhs
             /\ displacement' = Solve(A, rhs)
    /\ \E conditions \in ConditionArgs :
          todo' = IF conditions = << >> THEN <<DefaultCondition>>
                  ELSE conditions
    /\ constructed' =
           LET t == Property(constructed, "tangents_solver",
                             constructed["tangents_solver"] > 0)
               a == Property(t, "angles_solver", t["angles_solver"] > 0)
           IN  Property(a, "facet_area_solver", a["facet_area_solver"] > 0)
    /\ pc' = "conditions"
    /\ calls' = calls + 1
    /\ result' = NoResult
    /\ UNCHANGED <<cfg, coordinates, fields, grad_phi, monitor, theta,
                   l2_projector, pseudotimestepper, equidistributor, locals,
                   snes, updates, ghosts>>

\* apply_dirichlet_conditions: the next condition of the loop
Apply_dirichlet_conditions ==
    /\ pc = "conditions" /\ todo # << >>
    /\ LET out == apply_dirichlet_condition(mesh, Head(todo), displacement) IN
       IF out.err # ""
       THEN /\ pc' = "idle"
            /\ result' = [kind |-> out.err, msg |-> out.msg, n |-> 0,
                          tags |-> out.tags]
            /\ UNCHANGED <<displacement, todo>>
       ELSE /\ displacement' = out.displacement
            /\ todo' = Tail(todo)
            /\ UNCHANGED <<pc, result>>
    /\ UNCHANGED <<cfg, coordinates, fields, grad_phi, monitor, theta, handles,
                   locals, snes, calls, updates, ghosts, f, K>>

\* the end of move(): the displacement is added to the coordinates
Update_coordinates ==
    /\ pc = "conditions" /\ todo = << >>
    /\ coordinates' = [k \in DOMAIN coordinates |->
                          coordinates[k] + displacement[k]]
    /\ pc' = "idle"
    /\ result' = Returned(0)
    /\ UNCHANGED <<cfg, springs, fields, grad_phi, monitor, theta, handles,
                   locals, snes, calls, updates, ghosts>>

(***************************************************************************)
(* Specifications                                                          *)
(***************************************************************************)
FieldArgs == {<<NoField, NoField>>, <<Zero, NoField>>, <<NoField, Zero>>,
              <<Zero, Zero>>, <<<<0, 1>>, <<1, 1>>>>, <<<<1, 0>>, <<0, 1>>>>}

New_Relaxation ==
    \E mf \in MonitorFunctions \cup {None}, mi \in 0..MaxIter,
       rt \in RTolValues, dt \in DTolValues, fix \in BOOLEAN,
       guess \in FieldArgs :
       Construct("relaxation", mf, mi, rt, dt, fix, guess[1], guess[2])

New_QuasiNewton ==
    \E mf \in MonitorFunctions \cup {None}, mi \in 0..MaxIter,
       rt \in RTolValues, fix \in BOOLEAN, guess \in FieldArgs :
       Construct("quasi_newton", mf, mi, rt, <<2, 1>>, fix, guess[1], guess[2])

New_Default ==
    \E mth \in Methods, fix \in BOOLEAN :
       Construct(mth, "ring_monitor", MaxIter, <<1, 100>>, <<2, 1>>, fix,
                 NoField, NoField)

\* a mover of either variant with any monitor function, maxiter >= 1
New_Adaptive ==
    \E mth \in Methods, mf \in AllMonitors, mi \in 1..MaxIter,
       rt \in RTolValues, fix \in BOOLEAN,
       guess \in {<<NoField, NoField>>, <<<<1, 0>>, <<0, 1>>>>} :
       Construct(mth, mf, mi, rt, <<2, 1>>, fix, guess[1], guess[2])

NextRelaxation ==
    \/ New_Relaxation
    \/ Move_Relaxation
    \/ Project
    \/ TrialMove
    \/ Resample
    \/ Restore
    \/ Test
    \/ Update
    \/ Commit

NextQuasiNewton ==
    \/ New_QuasiNewton
    \/ Move_QuasiNewton
    \/ SnesFunction
    \/ SnesLinesearch
    \/ SnesMonitor
    \/ SnesConverged
    \/ SnesJacobian

NextProjector ==
    \/ New_Default
    \/ Get_l2_projector

NextMoves ==
    \/ Move_Relaxation
    \/ Project
    \/ TrialMove
    \/ Resample
    \/ Restore
    \/ Test
    \/ Update
    \/ Commit
    \/ Move_QuasiNewton
    \/ SnesFunction
    \/ SnesLinesearch
    \/ SnesMonitor
    \/ SnesConverged
    \/ SnesJacobian

NextMonitors ==
    \/ New_Adaptive
    \/ Set_monitor_function
    \/ NextMoves

MethodTags == {"relaxation", "quasi_newton", "lineal", "torsional", "method"}
Positionals == {<< >>, <<"1.0">>}

New_SpringMover ==
    \E positional \in Positionals, tag \in MethodTags \cup {None} :
       SpringMover(positional, tag)

New_SpringMover_Lineal ==
    \E positional \in Positionals : SpringMover_Base("lineal", positional, None)

New_SpringMover_Torsional ==
    \E positional \in Positionals :
       SpringMover_Base("torsional", positional, None)

New_MongeAmpereMover ==
    \E tag \in MethodTags, mf \in MonitorFunctions, fix \in BOOLEAN :
       MongeAmpereMover(tag, mf, MaxIter, <<1, 100>>, <<2, 1>>, fix,
                        NoField, NoField)

NextSpring ==
    \/ New_SpringMover
    \/ New_SpringMover_Lineal
    \/ New_SpringMover_Torsional
    \/ New_MongeAmpereMover
    \/ Move_Lineal
    \/ Apply_dirichlet_conditions
    \/ Update_coordinates

InitSpring ==
    /\ mesh \in SpringMeshes
    /\ coordinates = mesh.x
    /\ NoMover

Next == NextRelaxation \/ NextQuasiNewton

Spec == Init /\ [][Next]_vars
SpecRelaxation == Init /\ [][NextRelaxation]_vars
SpecQuasiNewton == Init /\ [][NextQuasiNewton]_vars
SpecProjector == InitOn(GeneratedMeshes) /\ [][NextProjector]_vars
SpecMonitors == Init /\ [][NextMonitors]_vars
\* a mover of either variant whose tolerance and iteration cap the caller
\* may change between its calls
New_Continue ==
    \E mth \in Methods, mi \in 1..MaxIter, rt \in Tolerances, fix \in BOOLEAN,
       guess \in {<<NoField, NoField>>, <<<<1, 0>>, <<0, 1>>>>} :
       Construct(mth, "ring_monitor", mi, rt, <<2, 1>>, fix, guess[1], guess[2])

NextContinue ==
    \/ New_Continue
    \/ Set_rtol
    \/ Set_maxiter
    \/ NextMoves

SpecContinue == Init /\ [][NextContinue]_vars
SpecBoundary ==
    InitOn(GeneratedMeshes \cup UnitMeshes \cup OtherMeshes)
        /\ [][NextProjector]_vars
SpecSpring == InitSpring /\ [][NextSpring]_vars

\* a mover of any class on a mesh of its kind, moved MaxCalls times
NextHandles ==
    \/ mesh \notin SpringMeshes /\ New_Relaxation
    \/ mesh \notin SpringMeshes /\ New_QuasiNewton
    \/ mesh \in SpringMeshes /\ New_SpringMover_Lineal
    \/ NextMoves
    \/ Move_Lineal
    \/ Apply_dirichlet_conditions
    \/ Update_coordinates

SpecHandles == (Init \/ InitSpring) /\ [][NextHandles]_vars

(***************************************************************************)
(* Properties of MongeAmpereMover_Relaxation.move                          *)
(***************************************************************************)
One == <<1, 1>>
Converges(res) == Less(res, Sq(rtol))
Diverges(res, init) == Less(Times(Sq(dtol), init), res)

\* C1: the three termination tests of an iteration are applied in a fixed
\* priority: a residual below rtol ends move() successfully whatever the
\* other two tests say; otherwise a residual above dtol times the initial
\* residual raises Diverged, also in the last iteration; FailedToConverge is
\* raised only when neither holds and i = maxiter - 1.
C1_TestPriority ==
    [][ /\ pc = "test" =>
            LET conv == Converges(residual')
                div == Diverges(residual', initial_norm')
                last == (i = maxiter - 1)
            IN  /\ conv => pc' = "commit" /\ result' = result
                /\ ~conv /\ div =>
                       /\ pc' = "idle"
                       /\ result' = Raised("ConvergenceError", "Diverged", i + 1)
                /\ ~conv /\ ~div /\ last =>
                       /\ pc' = "idle"
                       /\ result' = Raised("ConvergenceError",
                                           "Failed to converge", i + 1)
                /\ ~conv /\ ~div /\ ~last => pc' = "update" /\ result' = result
        /\ pc = "commit" /\ i # Unbound =>
               pc' = "idle" /\ result'.kind = "return" ]_vars

\* the last iteration passed all three tests at once and move() succeeds
C1_Witness ==
    /\ pc = "idle" /\ method = "relaxation" /\ result.kind = "return"
    /\ i = maxiter - 1
    /\ Converges(residual) /\ Diverges(residual, initial_norm)

\* C2: when move() succeeds at loop index i, the mesh coordinates on return
\* are xi + grad(phi) with the gradient recovered from the potential whose
\* residual passed the rtol test, and the returned count is i, the number of
\* potential/Hessian updates of this call.
C2_SuccessCommitsAndCounts ==
    [][ pc = "commit" /\ i # Unbound =>
            /\ coordinates' = X(xi, l2_solve(phi_old, l2_projector.bcs))
            /\ monitor = CallMonitor(monitor_function, coordinates')
            /\ Converges(Residual2(monitor, sigma_old, ThetaOf(monitor, sigma_old)))
            /\ result' = Returned(i)
            /\ i = updates ]_vars

\* a second call that succeeded after two updates and moved the mesh
C2_Witness ==
    /\ pc = "idle" /\ method = "relaxation" /\ calls = 2
    /\ result = Returned(2) /\ updates = 2
    /\ coordinates # xi

\* C3, as claimed: when move() ends with Diverged or FailedToConverge, the
\* mesh coordinates have been committed to xi + grad(phi).
C3_FailureCommits ==
    pc = "idle" /\ method = "relaxation" /\ result.kind = "ConvergenceError"
        => coordinates = X(xi, grad_phi)

\* C3, amended: when move() ends with Diverged or FailedToConverge, the mesh
\* coordinates are the reference coordinates xi: the trial value has been
\* restored and nothing is committed.
C3_FailureLeavesReference ==
    pc = "idle" /\ method = "relaxation" /\ result.kind = "ConvergenceError"
        => coordinates = xi

\* a failure with a non-zero recovered gradient
C3_Witness ==
    /\ pc = "idle" /\ method = "relaxation" /\ result.kind = "ConvergenceError"
    /\ X(xi, grad_phi) # xi

\* C4, as claimed: for maxiter >= 1 move() ends after at most maxiter
\* iterations, returning or raising a ConvergenceError, and FailedToConverge
\* reports maxiter iterations after maxiter - 1 updates.
C4_EndsWithinMaxiter ==
    method = "relaxation" /\ maxiter >= 1 /\ calls >= 1 =>
        /\ i <= maxiter - 1 /\ updates <= maxiter - 1
        /\ pc = "idle" => result.kind \in {"return", "ConvergenceError"}
        /\ pc = "idle" /\ result.msg = "Failed to converge" =>
               result.n = maxiter /\ updates = maxiter - 1

ZeroStart == /\ kwargs.phi_init \in {Zero, NoField}
             /\ kwargs.sigma_init = kwargs.phi_init

\* C6, as claimed: with a constant monitor, zero initial potential and
\* Hessian, the default boundary treatment and maxiter >= 1, the first
\* move() on a unit mesh of dimension 1, 2 or 3 returns 0 and leaves the
\* coordinates as they were, for both variants.
C6_UniformMonitorReturnsZero ==
    /\ pc = "idle" /\ calls = 1 /\ mesh \in UnitMeshes
    /\ ~fix_boundary_nodes /\ maxiter >= 1
    /\ kwargs.monitor_function = "const_monitor" /\ ZeroStart
    => result = Returned(0) /\ coordinates = Mesh0

ConfigurationErrors == {"Please supply a monitor function",
                        "Need to initialise both phi *and* sigma"}
HalfGuess == (kwargs.phi_init = NoField) # (kwargs.sigma_init = NoField)

\* C7: a missing monitor function and an initial guess given by half make
\* the construction fail with a ValueError, and neither error is raised by
\* move(); after a construction with both phi_init and sigma_init the four
\* fields hold them, and after one with neither they are zero.
C7_ConfigurationErrorsAtConstruction ==
    pc # "new" =>
        /\ kwargs.monitor_function = None =>
               /\ pc = "failed"
               /\ result = Raised("ValueError",
                                  "Please supply a monitor function", 0)
        /\ kwargs.monitor_function # None /\ HalfGuess =>
               /\ pc = "failed"
               /\ result = Raised("ValueError",
                                  "Need to initialise both phi *and* sigma", 0)
        /\ kwargs.monitor_function # None /\ ~HalfGuess =>
               pc # "failed" /\ result.msg \notin ConfigurationErrors
        /\ pc = "idle" /\ calls = 0 =>
               IF kwargs.phi_init # NoField
               THEN /\ phi = kwargs.phi_init /\ phi_old = kwargs.phi_init
                    /\ sigma = kwargs.sigma_init
                    /\ sigma_old = kwargs.sigma_init
               ELSE phi = Zero /\ phi_old = Zero /\ sigma = Zero
                    /\ sigma_old = Zero

\* a construction that failed for half an initial guess
C7_Witness ==
    pc = "failed" /\ kwargs.monitor_function # None /\ HalfGuess

SnesConverges == Less(snes.fnorm, Sq(snes.atol))

\* C9: if the solver has not converged when its iteration limit (maxiter as
\* handed to the solver) is reached, move() raises FailedToConverge with
\* the solver's iteration number and the mesh coordinates are not
\* committed; if it converges, move() sets the coordinates to xi + grad(phi)
\* recovered from the accepted iterate and returns the iteration number.
C9_QuasiNewtonOutcome ==
    [][ pc = "snes_converged" =>
            /\ snes.max_it = maxiter
            /\ ~SnesConverges /\ snes.iter >= snes.max_it =>
                   /\ pc' = "idle"
                   /\ result' = Raised("ConvergenceError", "Failed to converge",
                                       snes.iter)
                   /\ coordinates' = coordinates /\ coordinates = xi
            /\ SnesConverges =>
                   /\ pc' = "idle"
                   /\ result' = Returned(snes.iter)
                   /\ coordinates' =
                          X(xi, l2_solve(snes.sol.phi, l2_projector.bcs))
                   /\ phi' = snes.sol.phi /\ sigma' = snes.sol.sigma
            /\ ~SnesConverges /\ snes.iter < snes.max_it =>
                   pc' = "snes_jacobian" /\ result' = result ]_vars

\* a solve converged on an iterate other than the last trial iterate, whose
\* gradient would have moved the mesh elsewhere
C9_Witness ==
    /\ pc = "idle" /\ method = "quasi_newton" /\ result.kind = "return"
    /\ result.n >= 1
    /\ snes.w # snes.sol
    /\ X(xi, l2_solve(snes.w.phi, l2_projector.bcs)) # coordinates

InCallback == pc \in {"snes_function", "snes_jacobian", "snes_monitor"}

C18_TrialHeldBetweenAssignAndRestore ==
    [][ /\ pc = "trial" =>
               /\ samples = 0
               /\ grad_phi = l2_solve(phi_old, l2_projector.bcs)
               /\ coordinates' = X(xi, grad_phi)
        /\ pc = "resample" =>
               /\ coordinates = X(xi, l2_solve(phi_old, l2_projector.bcs))
               /\ samples = 0 /\ samples' = 1
               /\ monitor' = CallMonitor(monitor_function, coordinates)
               /\ UNCHANGED coordinates
        /\ pc = "restore" => samples = 1 /\ coordinates' = xi
        /\ pc = "test" =>
               /\ samples = 1 /\ coordinates = xi
               /\ theta' = ThetaOf(monitor, sigma_old)
               /\ residual' = Residual2(monitor, sigma_old, theta')
               /\ UNCHANGED <<coordinates, samples>>
        /\ pc = "update" =>
               /\ samples = 1 /\ coordinates = xi
               /\ UNCHANGED coordinates
        /\ pc = "project" /\ i > 0 => coordinates = xi /\ samples = 0 ]_vars

\* a second iteration about to run its update solves: the monitor function
\* was called once, on a trial mesh that differed from the reference mesh,
\* and the mesh is back at xi
C18_Witness ==
    /\ method = "relaxation" /\ pc = "update" /\ i = 1
    /\ samples = 1
    /\ grad_phi # Zero
    /\ monitor = CallMonitor(monitor_function, X(xi, grad_phi))
    /\ monitor # CallMonitor(monitor_function, xi)
    /\ coordinates = xi

\* C19: every residual evaluation and every Jacobian evaluation of the
\* quasi-Newton solve is preceded by the refresh callback at the evaluation
\* point: the point is copied into phi_old and sigma_old, the gradient is
\* recovered from that copy, the monitor is resampled on xi + that gradient,
\* theta is computed from the resampled monitor and the copied Hessian, the
\* mesh is left at xi, and the residual is evaluated with the refreshed
\* monitor and theta.
C19_RefreshBeforeEvaluation ==
    [][ LET at == IF pc = "snes_function" THEN snes.w ELSE snes.sol IN
        pc \in {"snes_function", "snes_jacobian"} /\ pc' # "idle" =>
            /\ phi_old' = at.phi /\ sigma_old' = at.sigma
            /\ l2_projector'.built
            /\ grad_phi' = l2_solve(phi_old', l2_projector'.bcs)
            /\ invoked' = invoked \cup {monitor_function}
            /\ monitor' = CallMonitor(monitor_function, X(xi, grad_phi'))
            /\ theta' = ThetaOf(monitor', sigma_old')
            /\ coordinates' = xi
            /\ pc = "snes_function" /\ snes.stage = "initial" =>
                   snes'.fnorm = FNorm2(at, monitor', theta')
            /\ pc = "snes_function" /\ snes'.cand # snes.cand =>
                   snes'.cand_fnorm = FNorm2(at, monitor', theta') ]_vars

\* a residual evaluation at a trial iterate of the line search, after a
\* Jacobian evaluation: the monitor is the ring monitor on the trial mesh of
\* that iterate, which is not the reference mesh, and the mesh is at xi
C19_Witness ==
    /\ method = "quasi_newton" /\ pc = "snes_linesearch" /\ snes.trials >= 1
    /\ snes.cand = snes.w
    /\ phi_old = snes.w.phi /\ sigma_old = snes.w.sigma
    /\ grad_phi # Zero
    /\ monitor_function = "ring_monitor"
    /\ monitor = ring_monitor(X(xi, grad_phi))
    /\ monitor # ring_monitor(xi)
    /\ theta = ThetaOf(monitor, sigma_old)
    /\ coordinates = xi

\* C20: when the monitor function raises while the mesh holds the trial
\* coordinates, the mesh is back at the reference coordinates xi when the
\* error reaches the caller of move().
C20_RestoredOnFailure ==
    pc = "idle" /\ result.kind = "MonitorError" => coordinates = xi

(***************************************************************************)
(* Properties of the spring movers                                         *)
(***************************************************************************)
Vertices(m) == 1..(Len(m.x) \div 2)
\* the block [[c*c, s*c], [s*c, s*s]] / l of edge e
SpringBlock(m, x, e) ==
    LET l == <<1, facet_areas(m, x, e)>>
        c == angles(m, x, e).c
        s == angles(m, x, e).s
    IN  << <<RMul(RMul(c, c), l), RMul(RMul(s, c), l)>>,
           <<RMul(RMul(s, c), l), RMul(RMul(s, s), l)>> >>
\* the boundary edges at vertex v
BoundaryEdgesAt(m, v) ==
    {e \in Edges(m) : m.marker[e] # 0 /\ v \in {m.cone[e][1], m.cone[e][2]}}
\* the interior edges joining v and w (those at v, when w = v)
InteriorEdgesAt(m, v, w) ==
    {e \in Edges(m) : m.marker[e] = 0 /\ {v, w} \subseteq {m.cone[e][1], m.cone[e][2]}}
RECURSIVE BlockSum(_, _, _, _, _)
BlockSum(m, x, es, a, b) ==
    IF es = {} THEN RZero
    ELSE LET e == CHOOSE e \in es : TRUE IN
         RAdd(SpringBlock(m, x, e)[a][b], BlockSum(m, x, es \ {e}, a, b))
Symmetric(A) == \A r \in DOMAIN A : \A c \in DOMAIN A : A[r][c] = A[c][r]
AllBoundary(m) == \A e \in Edges(m) : m.marker[e] # 0

\* C12: the matrix a move() assembles is, block by block: on the diagonal
\* block of a vertex, the number of its boundary edges times the identity
\* plus the blocks [[c*c, s*c], [s*c, s*s]] / l of its interior edges; on the
\* block of two distinct vertices, minus the block of the interior edge that
\* joins them, zero when none does.  It is symmetric; on a mesh of boundary
\* edges only it is diagonal with the number of boundary edges of the vertex
\* on the diagonal, which is 2 * I6 on the single triangle.
C12_StiffnessMatrix ==
    pc = "conditions" =>
        /\ \A v \in Vertices(mesh), w \in Vertices(mesh), a \in 1..2, b \in 1..2 :
              K[2 * (v - 1) + a][2 * (w - 1) + b] =
                 IF v = w
                 THEN RAdd(<<IF a = b THEN Cardinality(BoundaryEdgesAt(mesh, v))
                                      ELSE 0, 1>>,
                           BlockSum(mesh, coordinates,
                                    InteriorEdgesAt(mesh, v, v), a, b))
                 ELSE RNeg(BlockSum(mesh, coordinates,
                                    InteriorEdgesAt(mesh, v, w), a, b))
        /\ Symmetric(K)
        /\ AllBoundary(mesh) =>
              \A r \in Dofs(mesh), c \in Dofs(mesh) :
                 K[r][c] = IF r = c
                           THEN <<Cardinality(BoundaryEdgesAt(mesh, VertexOf(r))), 1>>
                           ELSE RZero
        /\ mesh = UnitTriangleMesh =>
              K = [r \in 1..6 |-> [c \in 1..6 |-> IF r = c THEN <<2, 1>> ELSE RZero]]

\* the matrix of the rectangle cut along its diagonal of length 5: the mixed
\* term of the diagonal is in it, with the opposite sign between its ends
C12_Witness ==
    /\ pc = "conditions" /\ mesh = RectangleMesh /\ coordinates = mesh.x
    /\ K[1][1] = <<259, 125>>
    /\ K[1][2] = <<-12, 125>> /\ K[2][1] = <<-12, 125>>
    /\ K[1][6] = <<12, 125>> /\ K[6][1] = <<12, 125>>
    /\ K[3][3] = <<2, 1>>

Diagonal(A) == \A r \in DOMAIN A : \A c \in DOMAIN A : r # c => A[r][c] = RZero

\* C13: on the single triangle, enforcing the default condition of a move()
\* makes the matrix of the move the identity, and enforcing zero displacement
\* on marker 1 alone makes it diagonal with two entries 2 and four entries 1.
C13_ConstrainedMatrix ==
    [][ mesh = UnitTriangleMesh /\ pc = "conditions" /\ Len(todo) = 1 =>
           /\ Head(todo) = DefaultCondition =>
                 /\ pc' = "conditions"
                 /\ K' = [r \in 1..6 |->
                            [c \in 1..6 |-> IF r = c THEN ROne ELSE RZero]]
           /\ Head(todo) = Condition("coord_space", "ints", {1}, 0) =>
                 /\ pc' = "conditions"
                 /\ Diagonal(K')
                 /\ Cardinality({k \in 1..6 : K'[k][k] = <<2, 1>>}) = 2
                 /\ Cardinality({k \in 1..6 : K'[k][k] = ROne}) = 4 ]_vars

\* C14: a condition of move() whose function space is not the coordinate
\* space ends the call with a ValueError about the function space; one whose
\* tags are not all markers of the mesh ends it with a ValueError that
\* carries the tags; every other condition is applied; and from the start of
\* the call to such an error the coordinates of the mesh do not change.
C14_ConditionsValidated ==
    [][ /\ pc = "conditions" /\ todo # << >> =>
           LET bc == Head(todo) IN
           /\ bc.space # "coord_space" =>
                 /\ pc' = "idle" /\ result'.kind = "ValueError"
                 /\ result'.msg =
                      "Boundary conditions must have coord_space as their function space"
           /\ /\ bc.space = "coord_space"
              /\ \E t \in bc.sub_domain.tags :
                    \A e \in Edges(mesh) : mesh.marker[e] # t
              => /\ pc' = "idle" /\ result'.kind = "ValueError"
                 /\ result'.msg = "contains invalid boundary tags"
                 /\ result'.tags = bc.sub_domain.tags
           /\ /\ bc.space = "coord_space"
              /\ bc.sub_domain.kind = "ints"
              /\ \A t \in bc.sub_domain.tags :
                    \E e \in Edges(mesh) : mesh.marker[e] = t
              => pc' = "conditions" /\ UNCHANGED result
        /\ method = "lineal" /\ (pc' = "conditions" \/ result'.kind = "ValueError")
              => UNCHANGED coordinates ]_vars

\* a move() on the original mesh whose first condition was applied to a
\* non-zero solved displacement and whose second condition named marker 5
C14_Witness ==
    /\ method = "lineal" /\ pc = "idle" /\ calls = 1
    /\ result.kind = "ValueError" /\ result.tags = {5}
    /\ todo = <<Condition("coord_space", "ints", {5}, 0)>>
    /\ displacement # Solve(K, f)
    /\ \A k \in Dofs(mesh) : Solve(K, f)[k] = -1
    /\ coordinates = mesh.x

\* C15: a condition of move() overwrites the displacement at the vertices of
\* the boundary edges whose marker is among its tags, with its own values,
\* and leaves every other entry as it was solved; the conditions are applied
\* between the solve and the addition of the displacement to the coordinates;
\* the default condition of a move() without conditions is applied like any
\* other and sets the displacement of every boundary vertex to zero, so that
\* move() leaves the boundary vertices where they were.
C15_DefaultPinsBoundary ==
    [][ /\ pc = "conditions" /\ todo # << >> /\ pc' = "conditions" =>
           \A k \in Dofs(mesh) :
              displacement'[k] =
                 IF \E e \in BoundaryEdgesAt(mesh, VertexOf(k)) :
                       mesh.marker[e] \in Head(todo).sub_domain.tags
                 THEN boundary_data(Head(todo), k)
                 ELSE displacement[k]
        /\ pc = "idle" /\ pc' = "conditions" =>
              /\ MatVec(K', displacement') = f'
              /\ UNCHANGED coordinates
        /\ pc = "conditions" /\ todo = << >> =>
              \A k \in Dofs(mesh) :
                 coordinates'[k] = coordinates[k] + displacement[k]
        /\ pc = "conditions" /\ todo = <<DefaultCondition>> =>
              /\ pc' = "conditions"
              /\ todo' = << >>
              /\ \A k \in Dofs(mesh) :
                    VertexOf(k) \in BoundaryVertices(mesh) =>
                       displacement'[k] = 0 ]_vars

\* C16: in the matrix a move() assembles, the row of every degree of freedom
\* of a boundary vertex has 1 on the diagonal and 0 elsewhere.
C16_BoundaryRowsIdentity ==
    pc = "conditions" =>
        \A r \in Dofs(mesh) :
           VertexOf(r) \in BoundaryVertices(mesh) =>
              \A c \in Dofs(mesh) : K[r][c] = IF r = c THEN ROne ELSE RZero

\* C17: MongeAmpereMover builds a mover for the tags relaxation and
\* quasi_newton and SpringMover builds one for lineal; with any other tag a
\* factory ends in an error and there is no mover; every construction of the
\* torsional variant ends in NotImplementedError.
C17_ClosedSetOfVariants ==
    pc # "new" =>
        /\ pc = "idle" => method \in {"relaxation", "quasi_newton", "lineal"}
        /\ pc = "failed" => method = None /\ result.kind # "none"
        /\ "method" \in DOMAIN kwargs /\ "variant" \notin DOMAIN kwargs =>
              kwargs.method \notin {"relaxation", "quasi_newton"} /\ pc = "failed"
        /\ "variant" \in DOMAIN kwargs =>
              /\ kwargs.variant \notin {"lineal", "torsional"} => pc = "failed"
              /\ kwargs.variant = "torsional" =>
                    pc = "failed" /\ result.kind = "NotImplementedError"

(***************************************************************************)
(* Properties of the solver handles                                        *)
(***************************************************************************)
\* C21: every solver handle of a mover (l2_projector, pseudotimestepper,
\* equidistributor; facet-area, tangent and angle solvers of a spring mover)
\* is constructed at most once per mover, by the first read of its property
\* that succeeds and never by the constructor; once constructed it is the
\* handle of every later iteration and every later move().
C21_HandlesConstructedOnce ==
    [][ /\ \A h \in SolverNames : constructed'[h] <= 1
        /\ calls' = 0 => \A h \in SolverNames : constructed'[h] = 0
        /\ l2_projector.built => l2_projector' = l2_projector
        /\ pseudotimestepper => pseudotimestepper'
        /\ equidistributor => equidistributor'
        /\ l2_projector'.built <=> constructed'["l2_projector"] = 1
        /\ pseudotimestepper' <=> constructed'["pseudotimestepper"] = 1
        /\ equidistributor' <=> constructed'["equidistributor"] = 1
        /\ pc = "project" /\ pc' = "trial" => l2_projector'.built
        /\ pc = "update" => pseudotimestepper'
        /\ pc = "update" /\ pc' = "project" => equidistributor'
        /\ pc' = "snes_function" => equidistributor'
        /\ pc' \in {"snes_linesearch", "snes_converged"} => l2_projector'.built
        /\ pc' = "conditions" =>
               \A h \in {"facet_area_solver", "tangents_solver",
                          "angles_solver"} : constructed'[h] = 1
      ]_vars

\* the second move() of a relaxation mover is past its first iteration, on
\* the three handles of the first
C21_Witness ==
    /\ method = "relaxation" /\ calls = 2 /\ i >= 1 /\ pc = "trial"
    /\ \A h \in {"l2_projector", "pseudotimestepper", "equidistributor"} :
          constructed[h] = 1

(***************************************************************************)
(* Properties of the boundary conditions of the gradient recovery          *)
(***************************************************************************)
\* the conditions the projector imposes on boundary tag k, in order
ConditionsOn(k) == SelectSeq(l2_projector.bcs, LAMBDA bc : bc.tag = k)

AxisAligned(n) == ~AllZero(n) /\ \E j \in DOMAIN n : n[j] = 0

\* the treatment of a boundary tag of a 2-D mesh whose nodes are free
Treatment(k) ==
    LET n == mesh.normals[k]
        on == ConditionsOn(k)
    IN  IF n[1] = 0
        THEN on = <<DirichletBC("P1_vec.sub(1)", k)>>
        ELSE IF n[2] = 0
        THEN on = <<DirichletBC("P1_vec.sub(0)", k)>>
        ELSE /\ Len(on) = 2
             /\ on[1].type = "EquationBC" /\ on[1].part = "normal"
             /\ on[2].type = "EquationBC" /\ on[2].part = "tangential"

\* on a 2-D mesh with free boundary nodes a tag whose normal vanishes is
\* rejected with ValueError, and otherwise every tag gets its one treatment
TreatmentIn2D ==
    pc = "idle" /\ result # NoResult /\ calls = 0
        /\ mesh.dim = 2 /\ ~fix_boundary_nodes =>
        IF \E k \in DOMAIN mesh.normals : AllZero(mesh.normals[k])
        THEN result.kind = "ValueError" /\ ~l2_projector.built
        ELSE /\ result = Returned(0) /\ l2_projector.built
             /\ \A k \in DOMAIN mesh.normals : Treatment(k)

\* on a unit domain the projector has one Dirichlet condition per tag
OnePerTag ==
    pc = "idle" /\ result # NoResult /\ calls = 0 /\ mesh \in UnitMeshes =>
        /\ result = Returned(0) /\ l2_projector.built
        /\ Len(l2_projector.bcs) = 2 * mesh.dim
        /\ \A k \in DOMAIN mesh.normals :
              /\ Len(ConditionsOn(k)) = 1
              /\ ConditionsOn(k)[1].type = "DirichletBC"

\* C22, as claimed: with free boundary nodes on a 2-D mesh every tag gets
\* exactly one treatment (one Dirichlet condition on the normal component
\* for an axis-aligned tag, two equation conditions otherwise, ValueError for
\* a vanishing normal), and on an axis-aligned unit domain of any dimension
\* the projector has one Dirichlet condition per tag, 2 * dim in total,
\* whether or not the boundary nodes are fixed.
C22_BoundaryTreatment == TreatmentIn2D /\ OnePerTag

\* the projector of a 2-D mover with free boundary nodes has been built
Recovered2D ==
    /\ pc = "idle" /\ result = Returned(0) /\ calls = 0
    /\ mesh.dim = 2 /\ ~fix_boundary_nodes /\ l2_projector.built

Tags == DOMAIN mesh.normals
Tangential(bc) == bc.type = "EquationBC" /\ bc.part = "tangential"

\* C23, as claimed: the vertices pinned for a segment that is not
\* axis-aligned are exactly those shared between two segments neither of
\* which is axis-aligned; none is shared with an axis-aligned segment.
C23_CornersOfNonAligned ==
    Recovered2D =>
        \A b \in DOMAIN l2_projector.bcs :
           LET bc == l2_projector.bcs[b] IN
           Tangential(bc) =>
               bc.corners = {c \in Tags \X Tags :
                                /\ c[1] # c[2]
                                /\ ~AxisAligned(mesh.normals[c[1]])
                                /\ ~AxisAligned(mesh.normals[c[2]])}

\* C23: the tangential condition of every segment that is not axis-aligned
\* pins the vertices shared by any two distinct boundary tags of the mesh,
\* axis-aligned or not; the normal condition of the segment pins none, and
\* an axis-aligned segment gets a plain Dirichlet condition.
C23_CornersOfAllSegments ==
    Recovered2D =>
        \A b \in DOMAIN l2_projector.bcs :
           LET bc == l2_projector.bcs[b] IN
           /\ Tangential(bc) =>
                  /\ ~AxisAligned(mesh.normals[bc.tag])
                  /\ bc.corners = {c \in Tags \X Tags : c[1] # c[2]}
           /\ bc.type = "EquationBC" /\ bc.part = "normal" => bc.corners = {}
           /\ bc.type = "EquationBC" <=> ~AxisAligned(mesh.normals[bc.tag])

\* a segment that is not axis-aligned next to an axis-aligned one: the
\* corner between the two is pinned
C23_Witness ==
    /\ Recovered2D
    /\ \E b \in DOMAIN l2_projector.bcs :
          LET bc == l2_projector.bcs[b] IN
          /\ Tangential(bc)
          /\ \E c \in bc.corners :
                c[1] = bc.tag /\ AxisAligned(mesh.normals[c[2]])

(***************************************************************************)
(* Properties of the end of MongeAmpereMover_Relaxation.move               *)
(***************************************************************************)
\* C24, as claimed: the relaxation move() commits coordinates and returns
\* only after an iteration of the call observed residual < rtol, and a call
\* with maxiter = 0 ends in ConvergenceError "Failed to converge", with
\* the coordinates it started from.
C24_ConvergedOrConvergenceError ==
    [][ method = "relaxation" =>
          /\ pc = "commit" => i # Unbound /\ Converges(residual)
          /\ pc' = "idle" /\ result'.kind = "return" =>
                 i # Unbound /\ Converges(residual)
          /\ pc # "idle" /\ pc' = "idle" /\ maxiter = 0 =>
                 /\ result'.kind = "ConvergenceError"
                 /\ result'.msg = "Failed to converge"
                 /\ coordinates' = xi
      ]_vars

\* for maxiter >= 1 the call commits and returns only after a residual
\* below rtol
ReturnsConverged ==
    [][ method = "relaxation" /\ maxiter >= 1 =>
          /\ pc = "commit" => i # Unbound /\ Converges(residual)
          /\ pc' = "idle" /\ result'.kind = "return" =>
                 pc = "commit" /\ Converges(residual)
          /\ coordinates' # coordinates /\ pc' = "idle" => pc = "commit"
      ]_vars

(***************************************************************************)
(* Properties of a tolerance changed between two calls                     *)
(***************************************************************************)
\* a call starts from the potential and Hessian the mover holds
Continues ==
    pc = "idle" /\ calls' = calls + 1 =>
        /\ UNCHANGED <<fields, xi>>
        /\ pc' = "snes_function" => snes'.sol = [phi |-> phi, sigma |-> sigma]

\* the decisions of the relaxation loop are taken on the mover's rtol and
\* maxiter as they are when the test runs
RelaxationReadsTolerance ==
    [][ /\ Continues
        /\ pc = "test" /\ pc' = "commit" => Converges(residual')
        /\ pc = "test" /\ pc' = "update" =>
               ~Converges(residual') /\ i < maxiter - 1
        /\ pc = "test" /\ result'.msg = "Failed to converge" =>
               ~Converges(residual') /\ i = maxiter - 1
      ]_vars

\* C25, as claimed: in both variants the convergence decisions of a call
\* are taken on the rtol and maxiter the mover has at that call, starting
\* from the retained potential and Hessian: a call returns only on a
\* residual below the current rtol, gives up only at the current maxiter,
\* and goes on otherwise.
C25_ToleranceGoverns ==
    [][ /\ Continues
        /\ pc = "test" /\ pc' = "commit" => Converges(residual')
        /\ pc = "test" /\ pc' = "update" =>
               ~Converges(residual') /\ i < maxiter - 1
        /\ pc = "test" /\ result'.msg = "Failed to converge" =>
               ~Converges(residual') /\ i = maxiter - 1
        /\ pc = "snes_converged" /\ result'.kind = "return" =>
               Less(snes.fnorm, Sq(rtol))
        /\ pc = "snes_converged" /\ pc' = "snes_jacobian" =>
               ~Less(snes.fnorm, Sq(rtol)) /\ snes.iter < maxiter
        /\ pc = "snes_converged" /\ result'.kind = "ConvergenceError" =>
               ~Less(snes.fnorm, Sq(rtol)) /\ snes.iter >= maxiter
      ]_vars
====
